---- MODULE Spec2Model ----
(***************************************************************************)
(* Status-register store (ACIDBURN2501/status): three banked bitfields     *)
(* (fault, warning, info) of NUM_STATUS_BANKS 16-bit words each, a         *)
(* last-set-id per class, and the public operations over them.  The store  *)
(* modelled is the bounds-checked revision of status.c together with the   *)
(* header that defines NUM_STATUS_BITS and the critical-section macros.    *)
(***************************************************************************)
EXTENDS Integers, Sequences, FiniteSets, TLC

(* ---------------- Configuration (header) -------------------------------- *)

NUM_STATUS_BANKS == 12

NUM_STATUS_BITS == 16

UNSET_ID == 65535

STATUS_CLASS_FAULT == 0

STATUS_CLASS_WARNING == 1

STATUS_CLASS_INFO == 2

\* status_err_t
STATUS_ERR_INVALID_ID == 0

STATUS_ERR_INVALID_BANK == 1

STATUS_ERR_INVALID_BIT == 2

STATUS_ERR_NULL_PTR == 3

\* uint16_t: every word and every id is kept modulo 2^16
U16 == 2 ^ 16

\* the null pointer, as a bank-array view and as a snapshot destination
NULL == "NULL"

(* ---------------- Bounds of the model ----------------------------------- *)

\* how many fault ids of FaultTable the callers use
NumFaultIds == 2

\* how far beyond NUM_STATUS_BANKS a snapshot length, or the bank of a pair a
\* caller encodes, may go
MaxOver == 1

\* how far beyond NUM_STATUS_BITS - 1 the bit of a pair a caller encodes may go
MaxBitOver == 1

(* ---------------- 16-bit arithmetic ------------------------------------- *)

RECURSIVE BitAnd(_, _)
BitAnd(a, b) ==
    IF a = 0 \/ b = 0 THEN 0
    ELSE (a % 2) * (b % 2) + 2 * BitAnd(a \div 2, b \div 2)

RECURSIVE BitOr(_, _)
BitOr(a, b) ==
    IF a = 0 THEN b
    ELSE IF b = 0 THEN a
    ELSE (IF a % 2 = 1 \/ b % 2 = 1 THEN 1 ELSE 0) + 2 * BitOr(a \div 2, b \div 2)

RECURSIVE BitXor(_, _)
BitXor(a, b) ==
    IF a = 0 THEN b
    ELSE IF b = 0 THEN a
    ELSE ((a + b) % 2) + 2 * BitXor(a \div 2, b \div 2)

\* (uint16_t)1u << bit
Mask16(bit) == (2 ^ bit) % U16

\* ~m as it lands in a uint16_t word: the low 16 bits of the promoted int
Not16(m) == (U16 - 1) - m

(* ---------------- Compile-time and run-time helpers (header) ------------ *)

\* STATUS_ENCODE with the bank masked by NUM_STATUS_BANKS - 1, as a header written
\* for a power-of-two bank count does
STATUS_ENCODE_masks_bank(bank, bit) ==
    BitOr((BitAnd(bank % U16, NUM_STATUS_BANKS - 1) * 16), BitAnd(bit % U16, 15)) % U16

\* (((uint16_t)(bank) << 4u) | ((uint16_t)(bit) & 0x0Fu)), with int promotion
\* and the value narrowed to the uint16_t id parameter it is passed as
STATUS_ENCODE(bank, bit) ==
    BitOr(((bank % U16) * 16), BitAnd(bit % U16, 15)) % U16

status_bank(id) == (id \div 16) % U16

\* status_bit with a five-bit mask
status_bit_five_bits(id) == BitAnd(id, 31) % U16

status_bit(id) == BitAnd(id, 15) % U16

(* ---------------- Store -------------------------------------------------- *)

VARIABLES
    fault_banks,       \* static volatile uint16_t fault_banks[NUM_STATUS_BANKS]
    warning_banks,     \* static volatile uint16_t warning_banks[NUM_STATUS_BANKS]
    info_banks,        \* static volatile uint16_t info_banks[NUM_STATUS_BANKS]
    last_fault_id,     \* static uint16_t last_fault_id
    last_warning_id,   \* static uint16_t last_warning_id
    last_info_id,      \* static uint16_t last_info_id
    call,              \* the public call that returned last: [op, cls, id, len]
    ret,               \* its return value (bool as 0/1, an id, 0 for void)
    dst,               \* the caller's memory behind dst after a snapshot call
    cs_hooks,          \* critical-section hooks the last call expanded, in order
    pre,               \* history: the store as it was when the last call began
    recent_set,        \* history: per class, the id of the latest valid set since init
    toggle_pair,       \* history: whether the last two calls were the same valid
                       \* toggle, and the store before the first of the two
    main_pc,           \* where the main loop stands inside a mutator's statement
    main_req,          \* the mutator call the main loop is inside
    main_tmp,          \* the bank word the main loop has read for its read-modify-write
    isr_log,           \* history: the interrupt-context calls that ran inside main_req
    err_cb,            \* the registered error callback, or NULL
    err_calls,         \* the error-callback invocations the last call made, in order
    codec,             \* a caller composing an id from a (bank, bit) pair and decoding it
    rev                \* the assertion-based revision of the store, fed the same calls

vars == <<fault_banks, warning_banks, info_banks, last_fault_id, last_warning_id,
          last_info_id, call, ret, dst, cs_hooks, pre, recent_set, toggle_pair,
          main_pc, main_req, main_tmp, isr_log, err_cb, err_calls, codec, rev>>

Banks == 0 .. (NUM_STATUS_BANKS - 1)

Classes == {STATUS_CLASS_FAULT, STATUS_CLASS_WARNING, STATUS_CLASS_INFO}

\* the six statics as one value
Store ==
    [fault_banks |-> fault_banks, warning_banks |-> warning_banks,
     info_banks |-> info_banks, last_fault_id |-> last_fault_id,
     last_warning_id |-> last_warning_id, last_info_id |-> last_info_id]

\* the statics as the C initialisers leave them before main() runs
StaticStore ==
    [fault_banks |-> [i \in Banks |-> 0], warning_banks |-> [i \in Banks |-> 0],
     info_banks |-> [i \in Banks |-> 0], last_fault_id |-> UNSET_ID,
     last_warning_id |-> UNSET_ID, last_info_id |-> UNSET_ID]

(* ---------------- Helpers ------------------------------------------------ *)

_min_u16(a, b) == IF a < b THEN a ELSE b

\* the selector with the info array as its default case
_get_banks_mut_default_info(cls) ==
    CASE cls = STATUS_CLASS_FAULT -> "fault_banks"
      [] cls = STATUS_CLASS_WARNING -> "warning_banks"
      [] OTHER -> "info_banks"

\* the bank-array selector of the two-class store: every class but FAULT lands
\* in warning_banks
_get_banks_mut_two_arrays(cls) ==
    IF cls = STATUS_CLASS_FAULT THEN "fault_banks" ELSE "warning_banks"

\* the bank array a class selects, by the name of the static, or NULL
_get_banks_mut(cls) ==
    CASE cls = STATUS_CLASS_FAULT -> "fault_banks"
      [] cls = STATUS_CLASS_WARNING -> "warning_banks"
      [] cls = STATUS_CLASS_INFO -> "info_banks"
      [] OTHER -> NULL

_get_banks_ro(cls) == _get_banks_mut(cls)

\* the switch at the end of _set: no default case, an unknown class records nothing
_record_last(id, cls, S) ==
    CASE cls = STATUS_CLASS_FAULT -> [S EXCEPT !.last_fault_id = id]
      [] cls = STATUS_CLASS_WARNING -> [S EXCEPT !.last_warning_id = id]
      [] cls = STATUS_CLASS_INFO -> [S EXCEPT !.last_info_id = id]
      [] OTHER -> S

\* _set with = in place of |=
_set_overwrites_word(id, cls, S) ==
    LET bank == status_bank(id)
        bit == status_bit(id)
        b == _get_banks_mut(cls)
    IN  IF (bank >= NUM_STATUS_BANKS) \/ (bit >= NUM_STATUS_BITS) THEN S
        ELSE IF b = NULL THEN S
        ELSE _record_last(id, cls, [S EXCEPT ![b][bank] = Mask16(bit)])

\* _set with ^= in place of |=
_set_as_xor(id, cls, S) ==
    LET bank == status_bank(id)
        bit == status_bit(id)
        b == _get_banks_mut(cls)
    IN  IF (bank >= NUM_STATUS_BANKS) \/ (bit >= NUM_STATUS_BITS) THEN S
        ELSE IF b = NULL THEN S
        ELSE _record_last(id, cls, [S EXCEPT ![b][bank] = BitXor(@, Mask16(bit))])

\* _set that records the id before it validates it
_set_records_before_check(id, cls, S) ==
    LET bank == status_bank(id)
        bit == status_bit(id)
        b == _get_banks_mut(cls)
    IN  IF (bank >= NUM_STATUS_BANKS) \/ (bit >= NUM_STATUS_BITS) THEN _record_last(id, cls, S)
        ELSE IF b = NULL THEN S
        ELSE _record_last(id, cls, [S EXCEPT ![b][bank] = BitOr(@, Mask16(bit))])

\* _set with the shift off by one
_set_shift_off_by_one(id, cls, S) ==
    LET bank == status_bank(id)
        bit == status_bit(id)
        b == _get_banks_mut(cls)
    IN  IF (bank >= NUM_STATUS_BANKS) \/ (bit >= NUM_STATUS_BITS) THEN S
        ELSE IF b = NULL THEN S
        ELSE _record_last(id, cls, [S EXCEPT ![b][bank] = BitOr(@, Mask16(bit + 1))])

\* _set with the bank masked into range instead of checked
_set_wraps_bank(id, cls, S) ==
    LET bank == status_bank(id) % NUM_STATUS_BANKS
        bit == status_bit(id)
        b == _get_banks_mut(cls)
    IN  IF b = NULL THEN S
        ELSE _record_last(id, cls, [S EXCEPT ![b][bank] = BitOr(@, Mask16(bit))])

_set(id, cls, S) ==
    LET bank == status_bank(id)
        bit == status_bit(id)
        b == _get_banks_mut(cls)
    IN  IF (bank >= NUM_STATUS_BANKS) \/ (bit >= NUM_STATUS_BITS) THEN S
        ELSE IF b = NULL THEN S
        ELSE _record_last(id, cls, [S EXCEPT ![b][bank] = BitOr(@, Mask16(bit))])

\* _clear that zeroes the whole bank word
_clear_whole_word(id, cls, S) ==
    LET bank == status_bank(id)
        bit == status_bit(id)
        b == _get_banks_mut(cls)
    IN  IF (bank >= NUM_STATUS_BANKS) \/ (bit >= NUM_STATUS_BITS) THEN S
        ELSE IF b = NULL THEN S
        ELSE [S EXCEPT ![b][bank] = 0]

\* _clear with the complement of the mask left out
_clear_no_complement(id, cls, S) ==
    LET bank == status_bank(id)
        bit == status_bit(id)
        b == _get_banks_mut(cls)
    IN  IF (bank >= NUM_STATUS_BANKS) \/ (bit >= NUM_STATUS_BITS) THEN S
        ELSE IF b = NULL THEN S
        ELSE [S EXCEPT ![b][bank] = BitAnd(@, Mask16(bit))]

\* _clear that also forgets the last-set-id when it names the cleared id
_clear_forgets_last(id, cls, S) ==
    LET bank == status_bank(id)
        bit == status_bit(id)
        b == _get_banks_mut(cls)
    IN  IF (bank >= NUM_STATUS_BANKS) \/ (bit >= NUM_STATUS_BITS) THEN S
        ELSE IF b = NULL THEN S
        ELSE LET S1 == [S EXCEPT ![b][bank] = BitAnd(@, Not16(Mask16(bit)))]
             IN  CASE cls = STATUS_CLASS_FAULT /\ S.last_fault_id = id ->
                        [S1 EXCEPT !.last_fault_id = UNSET_ID]
                   [] cls = STATUS_CLASS_WARNING /\ S.last_warning_id = id ->
                        [S1 EXCEPT !.last_warning_id = UNSET_ID]
                   [] cls = STATUS_CLASS_INFO /\ S.last_info_id = id ->
                        [S1 EXCEPT !.last_info_id = UNSET_ID]
                   [] OTHER -> S1

_clear(id, cls, S) ==
    LET bank == status_bank(id)
        bit == status_bit(id)
        b == _get_banks_mut(cls)
    IN  IF (bank >= NUM_STATUS_BANKS) \/ (bit >= NUM_STATUS_BITS) THEN S
        ELSE IF b = NULL THEN S
        ELSE [S EXCEPT ![b][bank] = BitAnd(@, Not16(Mask16(bit)))]

\* _toggle with &= ~ in place of ^=
_toggle_as_clear(id, cls, S) ==
    LET bank == status_bank(id)
        bit == status_bit(id)
        b == _get_banks_mut(cls)
    IN  IF (bank >= NUM_STATUS_BANKS) \/ (bit >= NUM_STATUS_BITS) THEN S
        ELSE IF b = NULL THEN S
        ELSE [S EXCEPT ![b][bank] = BitAnd(@, Not16(Mask16(bit)))]

\* _toggle with the bank folded into range instead of checked
_toggle_wraps_bank(id, cls, S) ==
    LET bank == status_bank(id) % NUM_STATUS_BANKS
        bit == status_bit(id)
        b == _get_banks_mut(cls)
    IN  IF b = NULL THEN S
        ELSE [S EXCEPT ![b][bank] = BitXor(@, Mask16(bit))]

\* _toggle with |= in place of ^=
_toggle_as_or(id, cls, S) ==
    LET bank == status_bank(id)
        bit == status_bit(id)
        b == _get_banks_mut(cls)
    IN  IF (bank >= NUM_STATUS_BANKS) \/ (bit >= NUM_STATUS_BITS) THEN S
        ELSE IF b = NULL THEN S
        ELSE [S EXCEPT ![b][bank] = BitOr(@, Mask16(bit))]

_toggle(id, cls, S) ==
    LET bank == status_bank(id)
        bit == status_bit(id)
        b == _get_banks_mut(cls)
    IN  IF (bank >= NUM_STATUS_BANKS) \/ (bit >= NUM_STATUS_BITS) THEN S
        ELSE IF b = NULL THEN S
        ELSE [S EXCEPT ![b][bank] = BitXor(@, Mask16(bit))]

\* _is_set with the bank folded into range instead of checked
_is_set_wraps_bank(id, cls, S) ==
    LET bank == status_bank(id) % NUM_STATUS_BANKS
        bit == status_bit(id)
        b == _get_banks_ro(cls)
    IN  IF b = NULL THEN 0
        ELSE IF BitAnd(S[b][bank], Mask16(bit)) # 0 THEN 1 ELSE 0

\* the indices of b[] that _is_set reads for an id
_is_set_reads(id, cls) ==
    LET bank == status_bank(id)
        bit == status_bit(id)
        b == _get_banks_ro(cls)
    IN  IF (bank >= NUM_STATUS_BANKS) \/ (bit >= NUM_STATUS_BITS) THEN {}
        ELSE IF b = NULL THEN {}
        ELSE {bank}

\* bool as 0/1
_is_set(id, cls, S) ==
    LET bank == status_bank(id)
        bit == status_bit(id)
        b == _get_banks_ro(cls)
    IN  IF (bank >= NUM_STATUS_BANKS) \/ (bit >= NUM_STATUS_BITS) THEN 0
        ELSE IF b = NULL THEN 0
        ELSE IF BitAnd(S[b][bank], Mask16(bit)) # 0 THEN 1 ELSE 0

RECURSIVE _any_scan(_, _, _)
\* the for loop of status_any from index i on: first nonzero word wins
_any_scan(S, b, i) ==
    IF i >= NUM_STATUS_BANKS THEN 0
    ELSE IF S[b][i] # 0 THEN 1
    ELSE _any_scan(S, b, i + 1)

RECURSIVE _zero_loop(_, _)
\* for (i = ...; i < NUM_STATUS_BANKS; ++i) words[i] = 0
_zero_loop(words, i) ==
    IF i >= NUM_STATUS_BANKS THEN words
    ELSE _zero_loop([words EXCEPT ![i] = 0], i + 1)

RECURSIVE _copy_loop(_, _, _, _)
\* for (i = ...; i < copy_len; ++i) dst[i] = src[i]
_copy_loop(mem, src, i, copy_len) ==
    IF i >= copy_len THEN mem
    ELSE _copy_loop([mem EXCEPT ![i] = src[i]], src, i + 1, copy_len)

(* ---------------- Public interface, as functions of the store ----------- *)

\* status_init that zeroes the banks and leaves the last-set-ids alone
status_init_store_keeps_last(S) ==
    [fault_banks |-> _zero_loop(S.fault_banks, 0),
     warning_banks |-> _zero_loop(S.warning_banks, 0),
     info_banks |-> _zero_loop(S.info_banks, 0),
     last_fault_id |-> S.last_fault_id,
     last_warning_id |-> S.last_warning_id,
     last_info_id |-> S.last_info_id]

\* status_init as it was before the info class existed
status_init_store_two_classes(S) ==
    [fault_banks |-> _zero_loop(S.fault_banks, 0),
     warning_banks |-> _zero_loop(S.warning_banks, 0),
     info_banks |-> S.info_banks,
     last_fault_id |-> UNSET_ID,
     last_warning_id |-> UNSET_ID,
     last_info_id |-> S.last_info_id]

status_init_store(S) ==
    [fault_banks |-> _zero_loop(S.fault_banks, 0),
     warning_banks |-> _zero_loop(S.warning_banks, 0),
     info_banks |-> _zero_loop(S.info_banks, 0),
     last_fault_id |-> UNSET_ID,
     last_warning_id |-> UNSET_ID,
     last_info_id |-> UNSET_ID]

\* status_any with the scan stopping one bank short
status_any_of_short_scan(cls, S) ==
    LET b == _get_banks_ro(cls)
    IN  IF b = NULL THEN 0
        ELSE IF \E i \in 0 .. (NUM_STATUS_BANKS - 2) : S[b][i] # 0 THEN 1 ELSE 0

status_any_of(cls, S) ==
    LET b == _get_banks_ro(cls)
    IN  IF b = NULL THEN 0 ELSE _any_scan(S, b, 0)

\* status_clear_all that also resets the class's last-set-id
status_clear_all_store_resets_last(cls, S) ==
    LET b == _get_banks_mut(cls)
    IN  IF b = NULL THEN S
        ELSE _record_last(UNSET_ID, cls, [S EXCEPT ![b] = _zero_loop(@, 0)])

status_clear_all_store(cls, S) ==
    LET b == _get_banks_mut(cls)
    IN  IF b = NULL THEN S ELSE [S EXCEPT ![b] = _zero_loop(@, 0)]

\* status_last_fault / status_last_warning / status_last_info
status_last(cls, S) ==
    CASE cls = STATUS_CLASS_FAULT -> S.last_fault_id
      [] cls = STATUS_CLASS_WARNING -> S.last_warning_id
      [] cls = STATUS_CLASS_INFO -> S.last_info_id

\* status_snapshot that copies every bank whatever len says
status_snapshot_mem_ignores_len(cls, dstp, len, mem, S) ==
    LET src == _get_banks_ro(cls)
    IN  IF (src = NULL) \/ (dstp = NULL) \/ (len = 0) THEN mem
        ELSE _copy_loop(mem, S[src], 0, NUM_STATUS_BANKS)

\* mem is the caller's memory behind dst; dstp is NULL or "buf"
status_snapshot_mem(cls, dstp, len, mem, S) ==
    LET src == _get_banks_ro(cls)
    IN  IF (src = NULL) \/ (dstp = NULL) \/ (len = 0) THEN mem
        ELSE _copy_loop(mem, S[src], 0, _min_u16(len, NUM_STATUS_BANKS))

(* ---------------- Callers' inputs ---------------------------------------- *)

\* the callers' ID table (examples/status_ids.h), extended by the top slot of
\* the configuration
STATUS_ID_FAULT_OVERCURRENT == STATUS_ENCODE(0, 0)

STATUS_ID_FAULT_OVERVOLTAGE == STATUS_ENCODE(0, 1)

STATUS_ID_FAULT_CAN_TIMEOUT == STATUS_ENCODE(2, 0)

STATUS_ID_INFO_AC_LIVE == STATUS_ENCODE(0, 0)

TOP_SLOT_ID == STATUS_ENCODE(NUM_STATUS_BANKS - 1, NUM_STATUS_BITS - 1)

\* fault ids in the order the callers take them into use
FaultTable ==
    << STATUS_ID_FAULT_OVERCURRENT, STATUS_ID_FAULT_OVERVOLTAGE,
       STATUS_ID_FAULT_CAN_TIMEOUT, TOP_SLOT_ID >>

\* valid ids the callers pass, per class
ValidTestIds(cls) ==
    CASE cls = STATUS_CLASS_FAULT -> {FaultTable[k] : k \in 1 .. NumFaultIds}
      [] cls = STATUS_CLASS_WARNING -> {TOP_SLOT_ID}
      [] cls = STATUS_CLASS_INFO -> {STATUS_ID_INFO_AC_LIVE}

\* ids whose decoded bank is out of range: bank == bank count, and the sentinel
InvalidTestIds == {STATUS_ENCODE(NUM_STATUS_BANKS, 0), UNSET_ID}

TestIds(cls) == ValidTestIds(cls) \cup InvalidTestIds

\* a class selector outside the enumeration, as a caller of any/clear_all/snapshot
\* can pass it
BadClass == STATUS_CLASS_INFO + 1

AnyClass == Classes \cup {BadClass}

SnapshotLens == {0, 1, NUM_STATUS_BANKS, NUM_STATUS_BANKS + MaxOver}

\* the caller's memory from dst on: the len entries it owns and what lies behind
MemCells == 0 .. (NUM_STATUS_BANKS + MaxOver)

\* a cell of caller memory the module has not written
Untouched == U16

FreshMem == [i \in MemCells |-> Untouched]

\* every valid id of the configuration
AllValidIds == {STATUS_ENCODE(bk, bt) : bk \in Banks, bt \in 0 .. (NUM_STATUS_BITS - 1)}

\* the largest bank whose shifted value still fits the uint16_t id
MaxEncodableBank == (U16 \div 16) - 1

\* the range check of _set, _clear, _toggle and _is_set in a build whose
\* NUM_STATUS_BANKS is banks
_in_range(id, banks) ==
    ~((status_bank(id) >= banks) \/ (status_bit(id) >= NUM_STATUS_BITS))

\* bank counts a build can be given: one bank, the defaults of the two headers,
\* the largest count whose ids leave 0xFFFF free, and one bank per encodable
\* bank number
BankCounts == {1, 8, NUM_STATUS_BANKS, MaxEncodableBank, MaxEncodableBank + 1}

\* which operand of the range check's || rejects an id, the bank test being
\* evaluated first
_failed_check(id) ==
    IF status_bank(id) >= NUM_STATUS_BANKS THEN "bank"
    ELSE IF status_bit(id) >= NUM_STATUS_BITS THEN "bit"
    ELSE "none"

IsValidId(id) ==
    status_bank(id) < NUM_STATUS_BANKS /\ status_bit(id) < NUM_STATUS_BITS

Mutators == {"set", "clear", "toggle"}

(* ---------------- Calls -------------------------------------------------- *)

Call(op, cls, id, len, dstp) ==
    [op |-> op, cls |-> cls, id |-> id, len |-> len, dstp |-> dstp]

\* the statics take the value S
Commit(S) ==
    /\ fault_banks' = S.fault_banks
    /\ warning_banks' = S.warning_banks
    /\ info_banks' = S.info_banks
    /\ last_fault_id' = S.last_fault_id
    /\ last_warning_id' = S.last_warning_id
    /\ last_info_id' = S.last_info_id

\* a call that runs from entry to return with nothing in between: the statics
\* take the value S and the call c returns r, leaving mem behind dst
Returned(c, S, r, mem, g) ==
    /\ Commit(S)
    /\ UNCHANGED <<main_pc, main_req, main_tmp, isr_log, err_cb>>
    /\ err_calls' = << >>
    /\ call' = c
    /\ ret' = r
    /\ dst' = mem
    /\ cs_hooks' = << >>
    /\ pre' = Store
    /\ recent_set' = g
    /\ toggle_pair' =
         IF c.op = "toggle" /\ call = c /\ IsValidId(c.id)
         THEN [on |-> TRUE, base |-> pre]
         ELSE [on |-> FALSE, base |-> StaticStore]

\* the same, beside a caller that composes no id and with the other revision
\* not linked in
Return(c, S, r, mem, g) ==
    /\ Returned(c, S, r, mem, g)
    /\ UNCHANGED <<codec, rev>>

\* history kept beside a set: the id, when it is a valid one
NoteSet(id, cls) ==
    IF IsValidId(id) THEN [recent_set EXCEPT ![cls] = id] ELSE recent_set

\* a caller that composes no id
CodecIdle == [pc |-> "idle", bank |-> 0, bit |-> 0, id |-> 0, dbank |-> 0, dbit |-> 0]

\* everything but the caller's id composition
InitStore ==
    /\ fault_banks = StaticStore.fault_banks
    /\ warning_banks = StaticStore.warning_banks
    /\ info_banks = StaticStore.info_banks
    /\ last_fault_id = StaticStore.last_fault_id
    /\ last_warning_id = StaticStore.last_warning_id
    /\ last_info_id = StaticStore.last_info_id
    /\ call = Call("start", -1, -1, -1, NULL)
    /\ ret = 0
    /\ dst = FreshMem
    /\ cs_hooks = << >>
    /\ pre = StaticStore
    /\ recent_set = [c \in Classes |-> UNSET_ID]
    /\ toggle_pair = [on |-> FALSE, base |-> StaticStore]
    /\ main_pc = "idle"
    /\ main_req = Call("start", -1, -1, -1, NULL)
    /\ main_tmp = 0
    /\ isr_log = << >>
    /\ err_cb = NULL
    /\ err_calls = << >>

\* the bank count the header of the assertion-based revision fixes
NUM_STATUS_BANKS_asserting == 8

\* the statics of the assertion-based revision, built with n banks, as its
\* initialisers leave them
RevStaticStore(n) ==
    [fault_banks |-> [i \in 0 .. (n - 1) |-> 0],
     warning_banks |-> [i \in 0 .. (n - 1) |-> 0],
     info_banks |-> [i \in 0 .. (n - 1) |-> 0], last_fault_id |-> UNSET_ID,
     last_warning_id |-> UNSET_ID, last_info_id |-> UNSET_ID]

\* the assertion-based revision built with n banks, before main() runs: its
\* statics, and the return value and destination memory of its last call
RevStaticOf(n) == [banks |-> n, store |-> RevStaticStore(n), ret |-> 0, dst |-> FreshMem]

\* the assertion-based revision as its own header configures it
RevStatic == RevStaticOf(NUM_STATUS_BANKS_asserting)

Init ==
    /\ InitStore
    /\ codec = CodecIdle
    /\ rev = RevStatic

status_init ==
    /\ main_pc = "idle"
    /\ Return(Call("init", -1, -1, -1, NULL), status_init_store(Store), 0, FreshMem,
              [c \in Classes |-> UNSET_ID])

status_set_warning ==
    /\ main_pc = "idle"
    /\ \E id \in TestIds(STATUS_CLASS_WARNING) :
           Return(Call("set", STATUS_CLASS_WARNING, id, -1, NULL),
                  _set(id, STATUS_CLASS_WARNING, Store), 0, FreshMem,
                  NoteSet(id, STATUS_CLASS_WARNING))

status_set_fault ==
    /\ main_pc = "idle"
    /\ \E id \in TestIds(STATUS_CLASS_FAULT) :
           Return(Call("set", STATUS_CLASS_FAULT, id, -1, NULL),
                  _set(id, STATUS_CLASS_FAULT, Store), 0, FreshMem,
                  NoteSet(id, STATUS_CLASS_FAULT))

status_set_info ==
    /\ main_pc = "idle"
    /\ \E id \in TestIds(STATUS_CLASS_INFO) :
           Return(Call("set", STATUS_CLASS_INFO, id, -1, NULL),
                  _set(id, STATUS_CLASS_INFO, Store), 0, FreshMem,
                  NoteSet(id, STATUS_CLASS_INFO))

status_clear_warning ==
    /\ main_pc = "idle"
    /\ \E id \in TestIds(STATUS_CLASS_WARNING) :
           Return(Call("clear", STATUS_CLASS_WARNING, id, -1, NULL),
                  _clear(id, STATUS_CLASS_WARNING, Store), 0, FreshMem, recent_set)

status_clear_fault ==
    /\ main_pc = "idle"
    /\ \E id \in TestIds(STATUS_CLASS_FAULT) :
           Return(Call("clear", STATUS_CLASS_FAULT, id, -1, NULL),
                  _clear(id, STATUS_CLASS_FAULT, Store), 0, FreshMem, recent_set)

status_clear_info ==
    /\ main_pc = "idle"
    /\ \E id \in TestIds(STATUS_CLASS_INFO) :
           Return(Call("clear", STATUS_CLASS_INFO, id, -1, NULL),
                  _clear(id, STATUS_CLASS_INFO, Store), 0, FreshMem, recent_set)

status_toggle_warning ==
    /\ main_pc = "idle"
    /\ \E id \in TestIds(STATUS_CLASS_WARNING) :
           Return(Call("toggle", STATUS_CLASS_WARNING, id, -1, NULL),
                  _toggle(id, STATUS_CLASS_WARNING, Store), 0, FreshMem, recent_set)

status_toggle_fault ==
    /\ main_pc = "idle"
    /\ \E id \in TestIds(STATUS_CLASS_FAULT) :
           Return(Call("toggle", STATUS_CLASS_FAULT, id, -1, NULL),
                  _toggle(id, STATUS_CLASS_FAULT, Store), 0, FreshMem, recent_set)

status_toggle_info ==
    /\ main_pc = "idle"
    /\ \E id \in TestIds(STATUS_CLASS_INFO) :
           Return(Call("toggle", STATUS_CLASS_INFO, id, -1, NULL),
                  _toggle(id, STATUS_CLASS_INFO, Store), 0, FreshMem, recent_set)

status_is_warning_set ==
    /\ main_pc = "idle"
    /\ \E id \in TestIds(STATUS_CLASS_WARNING) :
           Return(Call("is_set", STATUS_CLASS_WARNING, id, -1, NULL), Store,
                  _is_set(id, STATUS_CLASS_WARNING, Store), FreshMem, recent_set)

status_is_fault_set ==
    /\ main_pc = "idle"
    /\ \E id \in TestIds(STATUS_CLASS_FAULT) :
           Return(Call("is_set", STATUS_CLASS_FAULT, id, -1, NULL), Store,
                  _is_set(id, STATUS_CLASS_FAULT, Store), FreshMem, recent_set)

status_is_info_set ==
    /\ main_pc = "idle"
    /\ \E id \in TestIds(STATUS_CLASS_INFO) :
           Return(Call("is_set", STATUS_CLASS_INFO, id, -1, NULL), Store,
                  _is_set(id, STATUS_CLASS_INFO, Store), FreshMem, recent_set)

status_any ==
    /\ main_pc = "idle"
    /\ \E cls \in AnyClass :
           Return(Call("any", cls, -1, -1, NULL), Store, status_any_of(cls, Store),
                  FreshMem, recent_set)

status_clear_all ==
    /\ main_pc = "idle"
    /\ \E cls \in AnyClass :
           Return(Call("clear_all", cls, -1, -1, NULL), status_clear_all_store(cls, Store),
                  0, FreshMem, recent_set)

\* status_last_fault as a read-and-reset register
status_last_fault_read_and_reset ==
    /\ main_pc = "idle"
    /\ Return(Call("last", STATUS_CLASS_FAULT, -1, -1, NULL),
              [Store EXCEPT !.last_fault_id = UNSET_ID],
              status_last(STATUS_CLASS_FAULT, Store), FreshMem, recent_set)

status_last_fault ==
    /\ main_pc = "idle"
    /\ Return(Call("last", STATUS_CLASS_FAULT, -1, -1, NULL), Store,
              status_last(STATUS_CLASS_FAULT, Store), FreshMem, recent_set)

status_last_warning ==
    /\ main_pc = "idle"
    /\ Return(Call("last", STATUS_CLASS_WARNING, -1, -1, NULL), Store,
              status_last(STATUS_CLASS_WARNING, Store), FreshMem, recent_set)

status_last_info ==
    /\ main_pc = "idle"
    /\ Return(Call("last", STATUS_CLASS_INFO, -1, -1, NULL), Store,
              status_last(STATUS_CLASS_INFO, Store), FreshMem, recent_set)

status_snapshot ==
    /\ main_pc = "idle"
    /\ \E cls \in AnyClass, dstp \in {NULL, "buf"}, len \in SnapshotLens :
           Return(Call("snapshot", cls, -1, len, dstp), Store, 0,
                  status_snapshot_mem(cls, dstp, len, FreshMem, Store), recent_set)

Next ==
    \/ status_init
    \/ status_set_warning
    \/ status_set_fault
    \/ status_set_info
    \/ status_clear_warning
    \/ status_clear_fault
    \/ status_clear_info
    \/ status_toggle_warning
    \/ status_toggle_fault
    \/ status_toggle_info
    \/ status_is_warning_set
    \/ status_is_fault_set
    \/ status_is_info_set
    \/ status_any
    \/ status_clear_all
    \/ status_last_fault
    \/ status_last_warning
    \/ status_last_info
    \/ status_snapshot

Spec == Init /\ [][Next]_vars

(* ---------------- Error callback -------------------------------------------- *)

\* The header declares status_set_err_callback and the README registers a
\* handler with it; registration stores the handler.  None of _set, _clear,
\* _toggle, _is_set and status_snapshot calls a handler on its rejecting
\* branches, so err_calls stays empty after every call.

\* the application's handler, as the README's my_error_handler
AppErrHandler == "my_error_handler"

status_set_err_callback ==
    /\ main_pc = "idle"
    /\ \E cb \in {NULL, AppErrHandler} :
           /\ err_cb' = cb
           /\ call' = Call("set_err_callback", -1, -1, -1, cb)
    /\ ret' = 0
    /\ dst' = FreshMem
    /\ cs_hooks' = << >>
    /\ err_calls' = << >>
    /\ pre' = Store
    /\ toggle_pair' = [on |-> FALSE, base |-> StaticStore]
    /\ UNCHANGED <<fault_banks, warning_banks, info_banks, last_fault_id,
                   last_warning_id, last_info_id, recent_set, main_pc, main_req,
                   main_tmp, isr_log, codec, rev>>

NextErr ==
    \/ status_set_err_callback
    \/ Next

SpecErr == Init /\ [][NextErr]_vars

(* ---------------- The mutators under preemption --------------------------- *)

\* The compound assignments b[bank] |= m, &= ~m, ^= m on the volatile words are
\* a read and a write; STATUS_ENTER_CRITICAL / STATUS_EXIT_CRITICAL are defined
\* by the header and expanded nowhere in _set, _clear and _toggle, so an
\* interrupt handler that calls into the module can run between the two.  A
\* build whose target has a single read-modify-write instruction is the run in
\* which no interrupt falls in between.

\* how many interrupts may fall inside one main-loop mutator
MaxIsr == 1

\* m applied to the word w the way op's compound assignment does
_rmw(op, w, m) ==
    CASE op = "set" -> BitOr(w, m)
      [] op = "clear" -> BitAnd(w, Not16(m))
      [] op = "toggle" -> BitXor(w, m)

\* entry of _set/_clear/_toggle in the main loop: decode, validate, pick the bank
\* array, read the word
MainBegin ==
    /\ main_pc = "idle"
    /\ \E op \in Mutators, cls \in Classes :
         \E id \in TestIds(cls) :
           LET bank == status_bank(id)
               bit == status_bit(id)
               b == _get_banks_mut(cls)
               c == Call(op, cls, id, -1, NULL)
           IN  IF (bank >= NUM_STATUS_BANKS) \/ (bit >= NUM_STATUS_BITS) \/ b = NULL
               THEN /\ call' = c
                    /\ ret' = 0
                    /\ pre' = Store
                    /\ isr_log' = << >>
                    /\ UNCHANGED <<fault_banks, warning_banks, info_banks,
                                   last_fault_id, last_warning_id, last_info_id,
                                   dst, cs_hooks, recent_set, toggle_pair,
                                   main_pc, main_req, main_tmp,
                                   err_cb, err_calls, codec, rev>>
               ELSE /\ main_pc' = "loaded"
                    /\ main_req' = c
                    /\ main_tmp' = Store[b][bank]
                    /\ pre' = Store
                    /\ isr_log' = << >>
                    /\ UNCHANGED <<fault_banks, warning_banks, info_banks,
                                   last_fault_id, last_warning_id, last_info_id,
                                   call, ret, dst, cs_hooks, recent_set, toggle_pair,
                                   err_cb, err_calls, codec, rev>>

\* the write-back of the word; _clear and _toggle return after it
MainStore ==
    /\ main_pc = "loaded"
    /\ LET bank == status_bank(main_req.id)
           bit == status_bit(main_req.id)
           b == _get_banks_mut(main_req.cls)
       IN  Commit([Store EXCEPT ![b][bank] = _rmw(main_req.op, main_tmp, Mask16(bit))])
    /\ IF main_req.op = "set"
       THEN /\ main_pc' = "stored"
            /\ UNCHANGED <<call, ret>>
       ELSE /\ main_pc' = "idle"
            /\ call' = main_req
            /\ ret' = 0
    /\ UNCHANGED <<dst, cs_hooks, pre, recent_set, toggle_pair, main_req, main_tmp,
                   isr_log, err_cb, err_calls, codec, rev>>

\* the switch that ends _set, then its return
MainRecordLast ==
    /\ main_pc = "stored"
    /\ Commit(_record_last(main_req.id, main_req.cls, Store))
    /\ main_pc' = "idle"
    /\ call' = main_req
    /\ ret' = 0
    /\ UNCHANGED <<dst, cs_hooks, pre, recent_set, toggle_pair, main_req, main_tmp,
                   isr_log, err_cb, err_calls, codec, rev>>

\* an interrupt handler calls status_set_fault while the main loop is inside a
\* mutator; the handler runs to its end before the main loop resumes
IsrSetFault ==
    /\ main_pc # "idle"
    /\ Len(isr_log) < MaxIsr
    /\ \E id \in TestIds(STATUS_CLASS_FAULT) :
           /\ Commit(_set(id, STATUS_CLASS_FAULT, Store))
           /\ isr_log' = Append(isr_log, Call("set", STATUS_CLASS_FAULT, id, -1, NULL))
    /\ UNCHANGED <<call, ret, dst, cs_hooks, pre, recent_set, toggle_pair,
                   main_pc, main_req, main_tmp, err_cb, err_calls, codec, rev>>

\* an interrupt handler calls status_is_fault_set(id) and status_last_fault()
\* while the main loop is inside a mutator, and keeps what they returned
IsrObserveFault ==
    /\ main_pc # "idle"
    /\ Len(isr_log) < MaxIsr
    /\ \E id \in ValidTestIds(STATUS_CLASS_FAULT) :
           isr_log' = Append(isr_log,
                             [op |-> "observe", cls |-> STATUS_CLASS_FAULT, id |-> id,
                              is_set |-> _is_set(id, STATUS_CLASS_FAULT, Store),
                              last |-> status_last(STATUS_CLASS_FAULT, Store)])
    /\ UNCHANGED <<fault_banks, warning_banks, info_banks, last_fault_id,
                   last_warning_id, last_info_id, call, ret, dst, cs_hooks, pre,
                   recent_set, toggle_pair, main_pc, main_req, main_tmp, err_cb,
                   err_calls, codec, rev>>

NextIsr ==
    \/ MainBegin
    \/ MainStore
    \/ MainRecordLast
    \/ IsrSetFault
    \/ IsrObserveFault

SpecIsr == Init /\ [][NextIsr]_vars

(* ---------------- status_snapshot under preemption ------------------------- *)

\* The copy loop of status_snapshot reads one volatile word per iteration and,
\* like the mutators, expands no critical-section macro: an interrupt handler
\* can run between two iterations.

\* the fault ids the main loop raises before it takes snapshots: two banks
SnapIds == {STATUS_ID_FAULT_OVERCURRENT, STATUS_ID_FAULT_CAN_TIMEOUT}

\* status_set_fault from the main loop, start to end
SnapSetFault ==
    /\ main_pc = "idle"
    /\ \E id \in SnapIds :
           Return(Call("set", STATUS_CLASS_FAULT, id, -1, NULL),
                  _set(id, STATUS_CLASS_FAULT, Store), 0, FreshMem,
                  NoteSet(id, STATUS_CLASS_FAULT))

\* entry of status_snapshot(STATUS_CLASS_FAULT, dst, len): the early return, or
\* copy_len and i = 0
SnapBegin ==
    /\ main_pc = "idle"
    /\ \E dstp \in {NULL, "buf"}, len \in SnapshotLens :
         LET c == Call("snapshot", STATUS_CLASS_FAULT, -1, len, dstp)
             src == _get_banks_ro(c.cls)
         IN  /\ dst' = FreshMem
             /\ pre' = Store
             /\ isr_log' = << >>
             /\ IF (src = NULL) \/ (dstp = NULL) \/ (len = 0)
                THEN /\ call' = c
                     /\ ret' = 0
                     /\ UNCHANGED <<main_pc, main_req, main_tmp>>
                ELSE /\ main_pc' = "copy"
                     /\ main_req' = c
                     /\ main_tmp' = 0
                     /\ UNCHANGED <<call, ret>>
    /\ UNCHANGED <<fault_banks, warning_banks, info_banks, last_fault_id,
                   last_warning_id, last_info_id, cs_hooks, recent_set, toggle_pair,
                   err_cb, err_calls, codec, rev>>

\* one iteration of the copy loop: dst[i] = src[i]; ++i
SnapCopyWord ==
    /\ main_pc = "copy"
    /\ main_tmp < _min_u16(main_req.len, NUM_STATUS_BANKS)
    /\ dst' = [dst EXCEPT ![main_tmp] = Store[_get_banks_ro(main_req.cls)][main_tmp]]
    /\ main_tmp' = main_tmp + 1
    /\ UNCHANGED <<fault_banks, warning_banks, info_banks, last_fault_id,
                   last_warning_id, last_info_id, call, ret, cs_hooks, pre,
                   recent_set, toggle_pair, main_pc, main_req, isr_log, err_cb,
                   err_calls, codec, rev>>

\* the loop condition fails: status_snapshot returns
SnapReturn ==
    /\ main_pc = "copy"
    /\ ~(main_tmp < _min_u16(main_req.len, NUM_STATUS_BANKS))
    /\ main_pc' = "idle"
    /\ call' = main_req
    /\ ret' = 0
    /\ UNCHANGED <<fault_banks, warning_banks, info_banks, last_fault_id,
                   last_warning_id, last_info_id, dst, cs_hooks, pre, recent_set,
                   toggle_pair, main_req, main_tmp, isr_log, err_cb, err_calls,
                   codec, rev>>

\* an interrupt handler calls status_clear_all(STATUS_CLASS_FAULT) while the
\* main loop is inside a call; the handler runs to its end
IsrClearAllFault ==
    /\ main_pc # "idle"
    /\ Len(isr_log) < MaxIsr
    /\ Commit(status_clear_all_store(STATUS_CLASS_FAULT, Store))
    /\ isr_log' = Append(isr_log, Call("clear_all", STATUS_CLASS_FAULT, -1, -1, NULL))
    /\ UNCHANGED <<call, ret, dst, cs_hooks, pre, recent_set, toggle_pair,
                   main_pc, main_req, main_tmp, err_cb, err_calls, codec, rev>>

NextSnap ==
    \/ SnapSetFault
    \/ SnapBegin
    \/ SnapCopyWord
    \/ SnapReturn
    \/ IsrSetFault
    \/ IsrClearAllFault

SpecSnap == Init /\ [][NextSnap]_vars

(* ---------------- The public functions, statement by statement ------------- *)

\* Every public function from its entry to its return: the validation and the
\* early returns, the single-statement bodies, and the for loops one iteration
\* at a time with their counter in main_tmp.

\* no call has returned since the running one was entered
NoCall == Call("start", -1, -1, -1, NULL)

\* the ids the main loop passes: a valid one and the one with bank == bank count
RunIds == {STATUS_ID_FAULT_OVERCURRENT, STATUS_ENCODE(NUM_STATUS_BANKS, 0)}

\* the calls the main loop makes
RunCalls ==
    {Call(op, cls, id, -1, NULL) :
        op \in Mutators \cup {"is_set"}, cls \in Classes, id \in RunIds}
    \cup {Call("init", -1, -1, -1, NULL)}
    \cup {Call(op, cls, -1, -1, NULL) : op \in {"any", "clear_all"}, cls \in AnyClass}
    \cup {Call("last", cls, -1, -1, NULL) : cls \in Classes}
    \cup {Call("snapshot", cls, -1, len, dstp) :
              cls \in {STATUS_CLASS_FAULT, BadClass}, len \in SnapshotLens,
              dstp \in {NULL, "buf"}}

\* a build whose validation is an assertion that traps: an invalid id never
\* gets past the entry
_entry_traps_on_invalid(c) ==
    CASE c.op \in Mutators \cup {"is_set"} ->
            IF (status_bank(c.id) >= NUM_STATUS_BANKS) \/ (status_bit(c.id) >= NUM_STATUS_BITS)
            THEN "trap"
            ELSE IF _get_banks_mut(c.cls) = NULL THEN "ret" ELSE "body"
      [] c.op = "last" -> "body"
      [] c.op = "init" -> "loop"
      [] c.op \in {"any", "clear_all"} ->
            IF _get_banks_mut(c.cls) = NULL THEN "ret" ELSE "loop"
      [] c.op = "snapshot" ->
            IF (_get_banks_ro(c.cls) = NULL) \/ (c.dstp = NULL) \/ (c.len = 0)
            THEN "ret" ELSE "copy"

\* where a call stands after its opening statements: at its return (an early
\* return), at its one-statement body, or at the head of its loop
_entry(c) ==
    CASE c.op \in Mutators \cup {"is_set"} ->
            IF (status_bank(c.id) >= NUM_STATUS_BANKS) \/ (status_bit(c.id) >= NUM_STATUS_BITS)
            THEN "ret"
            ELSE IF _get_banks_mut(c.cls) = NULL THEN "ret" ELSE "body"
      [] c.op = "last" -> "body"
      [] c.op = "init" -> "loop"
      [] c.op \in {"any", "clear_all"} ->
            IF _get_banks_mut(c.cls) = NULL THEN "ret" ELSE "loop"
      [] c.op = "snapshot" ->
            IF (_get_banks_ro(c.cls) = NULL) \/ (c.dstp = NULL) \/ (c.len = 0)
            THEN "ret" ELSE "copy"

RunInvoke ==
    /\ main_pc = "idle"
    /\ \E c \in RunCalls :
           /\ main_req' = c
           /\ main_pc' = _entry(c)
    /\ main_tmp' = 0
    /\ call' = NoCall
    /\ ret' = 0
    /\ dst' = FreshMem
    /\ pre' = Store
    /\ UNCHANGED <<fault_banks, warning_banks, info_banks, last_fault_id,
                   last_warning_id, last_info_id, cs_hooks, recent_set, toggle_pair,
                   isr_log, err_cb, err_calls, codec, rev>>

\* the body of _set, _clear, _toggle, _is_set or status_last_* past the checks
RunBody ==
    /\ main_pc = "body"
    /\ LET c == main_req
       IN  CASE c.op = "set" -> Commit(_set(c.id, c.cls, Store)) /\ ret' = 0
             [] c.op = "clear" -> Commit(_clear(c.id, c.cls, Store)) /\ ret' = 0
             [] c.op = "toggle" -> Commit(_toggle(c.id, c.cls, Store)) /\ ret' = 0
             [] c.op = "is_set" -> Commit(Store) /\ ret' = _is_set(c.id, c.cls, Store)
             [] c.op = "last" -> Commit(Store) /\ ret' = status_last(c.cls, Store)
    /\ main_pc' = "ret"
    /\ UNCHANGED <<call, dst, cs_hooks, pre, recent_set, toggle_pair, main_req,
                   main_tmp, isr_log, err_cb, err_calls, codec, rev>>

\* one pass through the head of the for loop of status_init (three loops in a
\* row, then the three last-set-ids), status_any or status_clear_all
RunLoop ==
    /\ main_pc = "loop"
    /\ LET c == main_req
           i == main_tmp
           b == _get_banks_mut(c.cls)
       IN  CASE c.op = "init" ->
                  IF i < 3 * NUM_STATUS_BANKS
                  THEN /\ Commit([Store EXCEPT
                                    ![_get_banks_mut(i \div NUM_STATUS_BANKS)][i % NUM_STATUS_BANKS] = 0])
                       /\ main_tmp' = i + 1
                       /\ UNCHANGED <<main_pc, ret>>
                  ELSE /\ Commit([Store EXCEPT !.last_fault_id = UNSET_ID,
                                                !.last_warning_id = UNSET_ID,
                                                !.last_info_id = UNSET_ID])
                       /\ main_pc' = "ret"
                       /\ UNCHANGED <<main_tmp, ret>>
             [] c.op = "any" ->
                  /\ Commit(Store)
                  /\ IF i < NUM_STATUS_BANKS
                     THEN IF Store[b][i] # 0
                          THEN main_pc' = "ret" /\ ret' = 1 /\ UNCHANGED main_tmp
                          ELSE main_tmp' = i + 1 /\ UNCHANGED <<main_pc, ret>>
                     ELSE main_pc' = "ret" /\ ret' = 0 /\ UNCHANGED main_tmp
             [] c.op = "clear_all" ->
                  IF i < NUM_STATUS_BANKS
                  THEN /\ Commit([Store EXCEPT ![b][i] = 0])
                       /\ main_tmp' = i + 1
                       /\ UNCHANGED <<main_pc, ret>>
                  ELSE /\ Commit(Store)
                       /\ main_pc' = "ret"
                       /\ UNCHANGED <<main_tmp, ret>>
    /\ UNCHANGED <<call, dst, cs_hooks, pre, recent_set, toggle_pair, main_req,
                   isr_log, err_cb, err_calls, codec, rev>>

\* the return to the caller
RunReturn ==
    /\ main_pc = "ret"
    /\ main_pc' = "idle"
    /\ call' = main_req
    /\ UNCHANGED <<fault_banks, warning_banks, info_banks, last_fault_id,
                   last_warning_id, last_info_id, ret, dst, cs_hooks, pre,
                   recent_set, toggle_pair, main_req, main_tmp, isr_log, err_cb,
                   err_calls, codec, rev>>

\* the steps of a call that has been entered
RunStep ==
    \/ RunBody
    \/ RunLoop
    \/ SnapCopyWord
    \/ SnapReturn
    \/ RunReturn

NextRun ==
    \/ RunInvoke
    \/ RunBody
    \/ RunLoop
    \/ SnapCopyWord
    \/ SnapReturn
    \/ RunReturn

\* a function that has been entered keeps executing: the processor does not
\* stop between two statements
SpecRun == Init /\ [][NextRun]_vars /\ WF_vars(RunStep)

(* ---------------- Callers composing ids ----------------------------------- *)

\* banks and bits of the pairs callers hand to STATUS_ENCODE
CodecBanks == (0 .. (NUM_STATUS_BANKS - 1 + MaxOver)) \cup {MaxEncodableBank}

CodecBits == 0 .. (NUM_STATUS_BITS - 1 + MaxBitOver)

\* a caller holding a (bank, bit) pair it is about to encode
InitCodec ==
    /\ InitStore
    /\ rev = RevStatic
    /\ \E bk \in CodecBanks, bt \in CodecBits :
           codec = [pc |-> "pair", bank |-> bk, bit |-> bt, id |-> 0,
                    dbank |-> 0, dbit |-> 0]

\* id = STATUS_ENCODE(bank, bit)
CodecEncode ==
    /\ codec.pc = "pair"
    /\ codec' = [codec EXCEPT !.pc = "encoded", !.id = STATUS_ENCODE(codec.bank, codec.bit)]
    /\ UNCHANGED <<fault_banks, warning_banks, info_banks, last_fault_id,
                   last_warning_id, last_info_id, call, ret, dst, cs_hooks, pre,
                   recent_set, toggle_pair, main_pc, main_req, main_tmp, isr_log,
                   err_cb, err_calls, rev>>

\* status_bank(id), status_bit(id)
CodecDecode ==
    /\ codec.pc = "encoded"
    /\ codec' = [codec EXCEPT !.pc = "decoded", !.dbank = status_bank(codec.id),
                              !.dbit = status_bit(codec.id)]
    /\ UNCHANGED <<fault_banks, warning_banks, info_banks, last_fault_id,
                   last_warning_id, last_info_id, call, ret, dst, cs_hooks, pre,
                   recent_set, toggle_pair, main_pc, main_req, main_tmp, isr_log,
                   err_cb, err_calls, rev>>

\* the classes whose functions the composing caller calls
CodecClasses == {STATUS_CLASS_FAULT}

\* the caller passes the id it composed to a mutator or to is_set of a class
CodecUse ==
    /\ codec.pc = "decoded"
    /\ main_pc = "idle"
    /\ \E cls \in CodecClasses :
         \/ Return(Call("set", cls, codec.id, -1, NULL), _set(codec.id, cls, Store),
                   0, FreshMem, NoteSet(codec.id, cls))
         \/ Return(Call("clear", cls, codec.id, -1, NULL), _clear(codec.id, cls, Store),
                   0, FreshMem, recent_set)
         \/ Return(Call("toggle", cls, codec.id, -1, NULL), _toggle(codec.id, cls, Store),
                   0, FreshMem, recent_set)
         \/ Return(Call("is_set", cls, codec.id, -1, NULL), Store,
                   _is_set(codec.id, cls, Store), FreshMem, recent_set)

NextCodec ==
    \/ CodecEncode
    \/ CodecDecode
    \/ CodecUse

SpecCodec == InitCodec /\ [][NextCodec]_vars

(* ---------------- Callers passing raw ids ----------------------------------- *)

\* every value a uint16_t id can take
AllIds == 0 .. (U16 - 1)

\* a caller holding an id it did not compose with STATUS_ENCODE
InitIds ==
    /\ InitStore
    /\ rev = RevStatic
    /\ \E id \in AllIds :
           codec = [pc |-> "encoded", bank |-> 0, bit |-> 0, id |-> id,
                    dbank |-> 0, dbit |-> 0]

\* the caller passes the id, once, to a fault mutator or to status_is_fault_set
IdUse ==
    /\ codec.pc = "decoded"
    /\ main_pc = "idle"
    /\ codec' = [codec EXCEPT !.pc = "used"]
    /\ UNCHANGED rev
    /\ LET cls == STATUS_CLASS_FAULT
       IN  \/ Returned(Call("set", cls, codec.id, -1, NULL), _set(codec.id, cls, Store),
                       0, FreshMem, NoteSet(codec.id, cls))
           \/ Returned(Call("toggle", cls, codec.id, -1, NULL),
                       _toggle(codec.id, cls, Store), 0, FreshMem, recent_set)
           \/ Returned(Call("is_set", cls, codec.id, -1, NULL), Store,
                       _is_set(codec.id, cls, Store), FreshMem, recent_set)

NextIds ==
    \/ CodecDecode
    \/ IdUse

SpecIds == InitIds /\ [][NextIds]_vars

(* ---------------- The assertion-based revision, in lock-step -------------- *)
(* status.c of the assertion-based revision with its assertions compiled   *)
(* out, so that _is_valid does nothing. Its operators take the bank count  *)
(* n of the build and its statics S; it is fed every call the              *)
(* bounds-checked revision is fed.                                         *)

_get_bank_array(cls) ==
    CASE cls = STATUS_CLASS_FAULT -> "fault_banks"
      [] cls = STATUS_CLASS_WARNING -> "warning_banks"
      [] cls = STATUS_CLASS_INFO -> "info_banks"
      [] OTHER -> NULL

rev_set(id, cls, n, S) ==
    LET bank == status_bank(id)
        bit == status_bit(id)
        b == _get_bank_array(cls)
    IN  IF b = NULL THEN S
        ELSE IF bank < n
        THEN _record_last(id, cls, [S EXCEPT ![b][bank] = BitOr(@, Mask16(bit))])
        ELSE S

\* _clear that records the id as _set does
rev_clear_records_last(id, cls, n, S) ==
    LET bank == status_bank(id)
        bit == status_bit(id)
        b == _get_bank_array(cls)
    IN  IF b = NULL THEN S
        ELSE IF bank < n
        THEN _record_last(id, cls,
                          [S EXCEPT ![b][bank] = BitAnd(@, Not16(Mask16(bit)))])
        ELSE S

rev_clear(id, cls, n, S) ==
    LET bank == status_bank(id)
        bit == status_bit(id)
        b == _get_bank_array(cls)
    IN  IF b = NULL THEN S
        ELSE IF bank < n
        THEN [S EXCEPT ![b][bank] = BitAnd(@, Not16(Mask16(bit)))]
        ELSE S

rev_toggle(id, cls, n, S) ==
    LET bank == status_bank(id)
        bit == status_bit(id)
        b == _get_bank_array(cls)
    IN  IF b = NULL THEN S
        ELSE IF bank < n
        THEN [S EXCEPT ![b][bank] = BitXor(@, Mask16(bit))]
        ELSE S

rev_is_set(id, cls, n, S) ==
    LET bank == status_bank(id)
        bit == status_bit(id)
        b == _get_bank_array(cls)
    IN  IF bank >= n THEN 0
        ELSE IF b = NULL THEN 0
        ELSE IF BitAnd(S[b][bank], Mask16(bit)) # 0 THEN 1 ELSE 0

\* memset over each whole array, then the three sentinels
rev_status_init(n, S) ==
    [fault_banks |-> [i \in DOMAIN S.fault_banks |-> 0],
     warning_banks |-> [i \in DOMAIN S.warning_banks |-> 0],
     info_banks |-> [i \in DOMAIN S.info_banks |-> 0],
     last_fault_id |-> UNSET_ID,
     last_warning_id |-> UNSET_ID,
     last_info_id |-> UNSET_ID]

RECURSIVE rev_any_scan(_, _, _)
\* for (i = ...; i < NUM_STATUS_BANKS; ++i) if (banks[i] != 0) return true
rev_any_scan(words, i, n) ==
    IF i >= n THEN 0
    ELSE IF words[i] # 0 THEN 1
    ELSE rev_any_scan(words, i + 1, n)

rev_status_any(cls, n, S) ==
    LET banks == _get_bank_array(cls)
    IN  IF banks = NULL THEN 0 ELSE rev_any_scan(S[banks], 0, n)

RECURSIVE rev_zero_loop(_, _, _)
\* for (i = ...; i < NUM_STATUS_BANKS; ++i) banks[i] = 0
rev_zero_loop(words, i, n) ==
    IF i >= n THEN words
    ELSE rev_zero_loop([words EXCEPT ![i] = 0], i + 1, n)

rev_status_clear_all(cls, n, S) ==
    LET banks == _get_bank_array(cls)
    IN  IF banks = NULL THEN S ELSE [S EXCEPT ![banks] = rev_zero_loop(@, 0, n)]

rev_status_last(cls, S) ==
    CASE cls = STATUS_CLASS_FAULT -> S.last_fault_id
      [] cls = STATUS_CLASS_WARNING -> S.last_warning_id
      [] cls = STATUS_CLASS_INFO -> S.last_info_id

RECURSIVE rev_copy_loop(_, _, _, _, _)
\* for (i = ...; i < len && i < NUM_STATUS_BANKS; ++i) dst[i] = banks[i]
rev_copy_loop(mem, words, i, len, n) ==
    IF ~(i < len /\ i < n) THEN mem
    ELSE rev_copy_loop([mem EXCEPT ![i] = words[i]], words, i + 1, len, n)

\* status_snapshot of a recognized class into a non-null dst: neither pointer
\* is tested before the loop
rev_status_snapshot(cls, len, mem, n, S) ==
    rev_copy_loop(mem, S[_get_bank_array(cls)], 0, len, n)

\* the bank counts the assertion-based revision is built with: the one its own
\* header fixes, and the one of the bounds-checked revision's header
RevBankCounts == {NUM_STATUS_BANKS_asserting, NUM_STATUS_BANKS}

InitRev ==
    /\ InitStore
    /\ codec = CodecIdle
    /\ \E n \in RevBankCounts : rev = RevStaticOf(n)

\* the call c returns from both revisions: (S, r, mem) in the bounds-checked
\* one, (RS, rr, rmem) in the assertion-based one
RevReturned(c, S, r, mem, g, RS, rr, rmem) ==
    /\ Returned(c, S, r, mem, g)
    /\ rev' = [rev EXCEPT !.store = RS, !.ret = rr, !.dst = rmem]
    /\ UNCHANGED codec

RevInit ==
    /\ main_pc = "idle"
    /\ RevReturned(Call("init", -1, -1, -1, NULL), status_init_store(Store), 0, FreshMem,
                [c \in Classes |-> UNSET_ID],
                rev_status_init(rev.banks, rev.store), 0, FreshMem)

RevSet ==
    /\ main_pc = "idle"
    /\ \E cls \in Classes : \E id \in TestIds(cls) :
        RevReturned(Call("set", cls, id, -1, NULL), _set(id, cls, Store), 0, FreshMem,
                    NoteSet(id, cls),
                    rev_set(id, cls, rev.banks, rev.store), 0, FreshMem)

RevClear ==
    /\ main_pc = "idle"
    /\ \E cls \in Classes : \E id \in TestIds(cls) :
        RevReturned(Call("clear", cls, id, -1, NULL), _clear(id, cls, Store), 0,
                    FreshMem, recent_set,
                    rev_clear(id, cls, rev.banks, rev.store), 0, FreshMem)

RevToggle ==
    /\ main_pc = "idle"
    /\ \E cls \in Classes : \E id \in TestIds(cls) :
        RevReturned(Call("toggle", cls, id, -1, NULL), _toggle(id, cls, Store), 0,
                    FreshMem, recent_set,
                    rev_toggle(id, cls, rev.banks, rev.store), 0, FreshMem)

RevIsSet ==
    /\ main_pc = "idle"
    /\ \E cls \in Classes : \E id \in TestIds(cls) :
        RevReturned(Call("is_set", cls, id, -1, NULL), Store, _is_set(id, cls, Store),
                    FreshMem, recent_set,
                    rev.store, rev_is_set(id, cls, rev.banks, rev.store), FreshMem)

RevAny ==
    /\ main_pc = "idle"
    /\ \E cls \in Classes :
        RevReturned(Call("any", cls, -1, -1, NULL), Store, status_any_of(cls, Store),
                    FreshMem, recent_set,
                    rev.store, rev_status_any(cls, rev.banks, rev.store), FreshMem)

RevClearAll ==
    /\ main_pc = "idle"
    /\ \E cls \in Classes :
        RevReturned(Call("clear_all", cls, -1, -1, NULL),
                    status_clear_all_store(cls, Store), 0, FreshMem, recent_set,
                    rev_status_clear_all(cls, rev.banks, rev.store), 0, FreshMem)

RevLast ==
    /\ main_pc = "idle"
    /\ \E cls \in Classes :
        RevReturned(Call("last", cls, -1, -1, NULL), Store, status_last(cls, Store),
                    FreshMem, recent_set,
                    rev.store, rev_status_last(cls, rev.store), FreshMem)

RevSnapshot ==
    /\ main_pc = "idle"
    /\ \E cls \in Classes, len \in SnapshotLens :
        RevReturned(Call("snapshot", cls, -1, len, "buf"), Store, 0,
                    status_snapshot_mem(cls, "buf", len, FreshMem, Store), recent_set,
                    rev.store, 0,
                    rev_status_snapshot(cls, len, FreshMem, rev.banks, rev.store))

NextRev ==
    \/ RevInit
    \/ RevSet
    \/ RevClear
    \/ RevToggle
    \/ RevIsSet
    \/ RevAny
    \/ RevClearAll
    \/ RevLast
    \/ RevSnapshot

SpecRev == InitRev /\ [][NextRev]_vars

(* ---------------- Properties ---------------------------------------------- *)

\* the bank words of one class in a store
WordsOf(cls, S) == S[_get_banks_mut(cls)]


\* C1: in every state reached by set(id, class) with a valid id, whatever came
\* before, is_set(id, class) answers true.
C1_SetThenIsSet ==
    (call.op = "set" /\ IsValidId(call.id)) => _is_set(call.id, call.cls, Store) = 1

\* a set that turned on a bit that was off, in a store other calls had changed
C1_Witness ==
    /\ call.op = "set" /\ IsValidId(call.id)
    /\ _is_set(call.id, call.cls, pre) = 0
    /\ pre # StaticStore
    /\ _is_set(call.id, call.cls, Store) = 1

\* C2: in every state reached by clear(id, class) with a valid id, whatever
\* came before, is_set(id, class) answers false.
C2_ClearThenIsSet ==
    (call.op = "clear" /\ IsValidId(call.id)) => _is_set(call.id, call.cls, Store) = 0

\* a clear of a bit that was on and that the class's latest set had named
C2_Witness ==
    /\ call.op = "clear" /\ IsValidId(call.id)
    /\ _is_set(call.id, call.cls, pre) = 1
    /\ recent_set[call.cls] = call.id
    /\ _is_set(call.id, call.cls, Store) = 0

\* C3: for each class the last-set-id is the id of the most recent set with a
\* valid id since the last init, or 0xFFFF when there was none; nothing but set
\* and init moves it, and the accessor returns it.
C3_LastSetIsMostRecentSet ==
    /\ \A cls \in Classes : status_last(cls, Store) = recent_set[cls]
    /\ (call.op = "last" => ret = recent_set[call.cls])
    /\ (call.op \notin {"set", "init"} =>
            \A cls \in Classes : status_last(cls, Store) = status_last(cls, pre))
    /\ (call.op = "set" =>
            \A cls \in Classes \ {call.cls} :
                status_last(cls, Store) = status_last(cls, pre))

\* the last-set-id still names an id whose bit a clear has just turned off
C3_Witness ==
    /\ call.op = "clear" /\ IsValidId(call.id)
    /\ status_last(call.cls, Store) = call.id
    /\ _is_set(call.id, call.cls, pre) = 1
    /\ _is_set(call.id, call.cls, Store) = 0

C5_SetInsideClearIsSerial ==
    (/\ main_pc = "idle"
     /\ call.op = "clear" /\ IsValidId(call.id)
     /\ Len(isr_log) = 1
     /\ isr_log[1].op = "set"
     /\ isr_log[1].cls = call.cls
     /\ IsValidId(isr_log[1].id)
     /\ status_bank(isr_log[1].id) = status_bank(call.id)) =>
        LET a == isr_log[1].id
            bk == status_bank(call.id)
            set_clear == _clear(call.id, call.cls, _set(a, call.cls, pre))
            clear_set == _set(a, call.cls, _clear(call.id, call.cls, pre))
        IN  WordsOf(call.cls, Store)[bk] \in
                {WordsOf(call.cls, set_clear)[bk], WordsOf(call.cls, clear_set)[bk]}

\* C6: a set, clear or toggle with a valid id, a clear_all and a snapshot with a
\* destination expand the enter hook and then the exit hook, once each, around
\* their accesses; a call rejected for its input expands neither.
C6_HooksBracketEveryAccess ==
    LET guarded ==
            \/ call.op \in Mutators /\ IsValidId(call.id)
            \/ call.op = "clear_all" /\ call.cls \in Classes
            \/ call.op = "snapshot" /\ call.cls \in Classes /\ call.dstp # NULL
                  /\ call.len > 0
        rejected ==
            \/ call.op \in Mutators /\ ~IsValidId(call.id)
            \/ call.op = "snapshot" /\ (call.dstp = NULL \/ call.len = 0)
    IN  /\ guarded => cs_hooks = <<"enter", "exit">>
        /\ rejected => cs_hooks = << >>

\* C7: any(class) is true exactly when some bank word of the class is nonzero,
\* which is exactly when is_set is true for some valid id; so it is false after
\* init and false again once the last set bit is cleared.
C7_AnyIffSomeBitSet ==
    /\ \A cls \in Classes :
          (status_any_of(cls, Store) = 1) <=> (\E i \in Banks : WordsOf(cls, Store)[i] # 0)
    /\ (call.op = "any" /\ call.cls \in Classes) =>
          /\ (ret = 1) <=> (\E i \in Banks : WordsOf(call.cls, Store)[i] # 0)
          /\ (ret = 1) <=> (\E id \in AllValidIds : _is_set(id, call.cls, Store) = 1)
    /\ call.op = "init" => \A cls \in Classes : status_any_of(cls, Store) = 0
    /\ (call.op = "clear" /\ IsValidId(call.id)
          /\ \A id \in AllValidIds \ {call.id} : _is_set(id, call.cls, pre) = 0) =>
          status_any_of(call.cls, Store) = 0

\* clearing the last set bit of a class turned any(class) from true to false
C7_Witness ==
    /\ call.op = "clear" /\ IsValidId(call.id)
    /\ status_any_of(call.cls, pre) = 1
    /\ status_any_of(call.cls, Store) = 0

\* C8: clear_all(class) zeroes every bank word of the class and leaves the other
\* classes' words and all three last-set-ids as they were.
C8_ClearAllFrame ==
    (call.op = "clear_all" /\ call.cls \in Classes) =>
        /\ \A i \in Banks : WordsOf(call.cls, Store)[i] = 0
        /\ status_any_of(call.cls, Store) = 0
        /\ \A id \in AllValidIds \cup InvalidTestIds : _is_set(id, call.cls, Store) = 0
        /\ \A cls \in Classes \ {call.cls} : WordsOf(cls, Store) = WordsOf(cls, pre)
        /\ \A cls \in Classes : status_last(cls, Store) = status_last(cls, pre)

\* clear_all of a class that held bits and a last-set-id, beside another class
\* that holds bits
C8_Witness ==
    /\ call.op = "clear_all" /\ call.cls \in Classes
    /\ status_any_of(call.cls, pre) = 1
    /\ status_last(call.cls, Store) # UNSET_ID
    /\ \E cls \in Classes \ {call.cls} : status_any_of(cls, Store) = 1

\* C9: init called in any state leaves all bank words of all classes zero and
\* all three last-set-ids at 0xFFFF, the state static initialisation gives.
C9_InitResets ==
    call.op = "init" =>
        /\ \A cls \in Classes : \A i \in Banks : WordsOf(cls, Store)[i] = 0
        /\ \A cls \in Classes : status_last(cls, Store) = UNSET_ID
        /\ Store = StaticStore

\* init called with bits set and a last-set-id recorded in all three classes
C9_Witness ==
    /\ call.op = "init"
    /\ \A cls \in Classes :
          status_any_of(cls, pre) = 1 /\ status_last(cls, pre) # UNSET_ID
    /\ Store = StaticStore

\* C10: after two consecutive toggle(id, class) calls with a valid id every bank
\* word and every last-set-id is what it was before the first.
C10_ToggleTwiceRestores == toggle_pair.on => Store = toggle_pair.base

\* a pair of toggles on a bit that was on, in a class whose last-set-id is set
C10_Witness ==
    /\ toggle_pair.on
    /\ _is_set(call.id, call.cls, Store) = 1
    /\ _is_set(call.id, call.cls, pre) = 0
    /\ status_last(call.cls, Store) # UNSET_ID
    /\ Store = toggle_pair.base

\* the pair the caller holds satisfies bank < NUM_STATUS_BANKS and bit < 16
CodecPairValid == codec.bank < NUM_STATUS_BANKS /\ codec.bit < NUM_STATUS_BITS

\* C11: for every pair with bank < NUM_STATUS_BANKS and bit < 16 the id is
\* (bank << 4) | (bit & 0xF), that is 16 * bank + bit; decoding gives the pair
\* back; and no other valid pair encodes to the same id.
C11_EncodeDecodeRoundTrip ==
    (codec.pc \in {"encoded", "decoded"} /\ CodecPairValid) =>
        /\ codec.id = 16 * codec.bank + codec.bit
        /\ codec.id \div 16 = codec.bank /\ codec.id % 16 = codec.bit
        /\ codec.pc = "decoded" => (codec.dbank = codec.bank /\ codec.dbit = codec.bit)
        /\ codec.pc = "encoded" =>
              \A bk \in Banks, bt \in 0 .. (NUM_STATUS_BITS - 1) :
                  STATUS_ENCODE(bk, bt) = codec.id => (bk = codec.bank /\ bt = codec.bit)

\* the top pair of the configuration, encoded and decoded back
C11_Witness ==
    /\ codec.pc = "decoded"
    /\ codec.bank = NUM_STATUS_BANKS - 1 /\ codec.bit = NUM_STATUS_BITS - 1
    /\ codec.id = TOP_SLOT_ID
    /\ codec.dbank = codec.bank /\ codec.dbit = codec.bit

\* the statics that belong to one class: its bank words and its last-set-id
OwnStatics(cls, S) ==
    CASE cls = STATUS_CLASS_FAULT -> <<S.fault_banks, S.last_fault_id>>
      [] cls = STATUS_CLASS_WARNING -> <<S.warning_banks, S.last_warning_id>>
      [] cls = STATUS_CLASS_INFO -> <<S.info_banks, S.last_info_id>>

\* C12: set, clear, toggle and clear_all applied to one class change no bank
\* word and no last-set-id of the two other classes, so is_set and any of the
\* other classes answer as before, also for the id of the same number.
C12_ClassesDisjoint ==
    (call.op \in Mutators \cup {"clear_all"} /\ call.cls \in Classes) =>
        \A cls \in Classes \ {call.cls} :
            /\ OwnStatics(cls, Store) = OwnStatics(cls, pre)
            /\ status_any_of(cls, Store) = status_any_of(cls, pre)
            /\ call.op \in Mutators =>
                   _is_set(call.id, cls, Store) = _is_set(call.id, cls, pre)

\* the info id 0 has just been set while the fault id of the same number is off
\* and the warning class holds a bit of its own
C12_Witness ==
    /\ call.op = "set" /\ call.cls = STATUS_CLASS_INFO
    /\ call.id = STATUS_ID_INFO_AC_LIVE /\ call.id = STATUS_ID_FAULT_OVERCURRENT
    /\ _is_set(call.id, STATUS_CLASS_INFO, pre) = 0
    /\ _is_set(call.id, STATUS_CLASS_INFO, Store) = 1
    /\ _is_set(call.id, STATUS_CLASS_FAULT, Store) = 0
    /\ _is_set(call.id, STATUS_CLASS_WARNING, Store) = 0
    /\ status_any_of(STATUS_CLASS_WARNING, Store) = 1

\* C13: snapshot(class, dst, len) with a destination and len > 0 leaves
\* dst[i] = bank word i for the indices i < min(len, NUM_STATUS_BANKS) and every
\* other cell of the caller's memory as it was; the source indices it runs over
\* are all below NUM_STATUS_BANKS.
C13_SnapshotCopiesPrefix ==
    (call.op = "snapshot" /\ call.cls \in Classes /\ call.dstp # NULL /\ call.len > 0) =>
        LET n == IF call.len < NUM_STATUS_BANKS THEN call.len ELSE NUM_STATUS_BANKS
        IN  /\ \A i \in MemCells :
                  dst[i] = IF i < n THEN WordsOf(call.cls, Store)[i] ELSE Untouched
            /\ \A i \in MemCells : i >= call.len => dst[i] = Untouched
            /\ \A i \in 0 .. (n - 1) : i \in DOMAIN WordsOf(call.cls, Store)
            /\ Store = pre

\* a snapshot asked for more than NUM_STATUS_BANKS words: the top word, which
\* holds a bit, is copied and the cell behind it is left alone
C13_Witness ==
    /\ call.op = "snapshot" /\ call.cls \in Classes /\ call.dstp # NULL
    /\ call.len > NUM_STATUS_BANKS
    /\ WordsOf(call.cls, Store)[NUM_STATUS_BANKS - 1] # 0
    /\ dst[NUM_STATUS_BANKS - 1] = WordsOf(call.cls, Store)[NUM_STATUS_BANKS - 1]
    /\ dst[NUM_STATUS_BANKS] = Untouched

\* C14: snapshot with a null destination or with len == 0 writes no cell of the
\* caller's memory, leaves the store as it was and, a handler being registered,
\* calls it once with STATUS_ERR_NULL_PTR.
C14_NullSnapshotSignals ==
    (call.op = "snapshot" /\ (call.dstp = NULL \/ call.len = 0)) =>
        /\ dst = FreshMem
        /\ Store = pre
        /\ err_cb # NULL =>
              (Len(err_calls) = 1 /\ err_calls[1].err = STATUS_ERR_NULL_PTR)

C16_InvalidBankCallsHandler ==
    (call.op \in Mutators \cup {"is_set"}) =>
        /\ (err_cb # NULL /\ status_bank(call.id) >= NUM_STATUS_BANKS) =>
              err_calls = << [err |-> STATUS_ERR_INVALID_BANK, id |-> call.id] >>
        /\ IsValidId(call.id) => err_calls = << >>

\* the last call was made with the id the caller composed from its pair
CodecCalled == codec.pc = "decoded" /\ call.op \in Mutators \cup {"is_set"} /\ call.id = codec.id

C18_SetLinearizable ==
    /\ \A k \in 1 .. Len(isr_log) :
          (/\ isr_log[k].op = "observe"
           /\ main_req.op = "set"
           /\ isr_log[k].cls = main_req.cls /\ isr_log[k].id = main_req.id
           /\ _is_set(main_req.id, main_req.cls, pre) = 0
           /\ isr_log[k].is_set = 1) => isr_log[k].last = main_req.id
    /\ (/\ main_pc = "idle"
         /\ call.op = "set" /\ IsValidId(call.id)
         /\ Len(isr_log) = 1
         /\ isr_log[1].op = "set" /\ IsValidId(isr_log[1].id)) =>
          Store \in {_set(isr_log[1].id, isr_log[1].cls, _set(call.id, call.cls, pre)),
                     _set(call.id, call.cls, _set(isr_log[1].id, isr_log[1].cls, pre))}

RECURSIVE IsrReplay(_, _, _)
\* the store after the first k interrupt-context calls of log ran on S
IsrReplay(S, log, k) ==
    IF k = 0 THEN S
    ELSE LET e == log[k]
             T == IsrReplay(S, log, k - 1)
         IN  CASE e.op = "set" -> _set(e.id, e.cls, T)
               [] e.op = "clear_all" -> status_clear_all_store(e.cls, T)
               [] OTHER -> T

\* C19: the words a snapshot has written when it returns are the first
\* min(len, NUM_STATUS_BANKS) bank words of one store state: the one the call
\* began in, or the one some handler that ran inside the call left behind.
C19_SnapshotConsistent ==
    (main_pc = "idle" /\ call.op = "snapshot" /\ call.dstp # NULL /\ call.len > 0) =>
        LET n == IF call.len < NUM_STATUS_BANKS THEN call.len ELSE NUM_STATUS_BANKS
        IN  \E k \in 0 .. Len(isr_log) :
                \A i \in 0 .. (n - 1) :
                    dst[i] = WordsOf(call.cls, IsrReplay(pre, isr_log, k))[i]

C21_MutatorTouchesOneBit ==
    (call.op \in Mutators /\ IsValidId(call.id)) =>
        LET bk == status_bank(call.id)
            bt == status_bit(call.id)
        IN  /\ \A o \in (0 .. (NUM_STATUS_BITS - 1)) \ {bt} :
                  _is_set(STATUS_ENCODE(bk, o), call.cls, Store) =
                      _is_set(STATUS_ENCODE(bk, o), call.cls, pre)
            /\ \A i \in Banks \ {bk} :
                  WordsOf(call.cls, Store)[i] = WordsOf(call.cls, pre)[i]

\* a clear turned its bit off while another bit of the same bank word stayed on
C21_Witness ==
    /\ call.op = "clear" /\ IsValidId(call.id)
    /\ _is_set(call.id, call.cls, pre) = 1
    /\ _is_set(call.id, call.cls, Store) = 0
    /\ \E o \in (0 .. (NUM_STATUS_BITS - 1)) \ {status_bit(call.id)} :
          _is_set(STATUS_ENCODE(status_bank(call.id), o), call.cls, Store) = 1

\* C22: a toggle with a valid id flips the bit: is_set of the id right after
\* the call is the negation of is_set right before it.
C22_ToggleFlips ==
    (call.op = "toggle" /\ IsValidId(call.id)) =>
        _is_set(call.id, call.cls, Store) = 1 - _is_set(call.id, call.cls, pre)

\* a toggle turned on a bit that was off, in a class that already held a bit
C22_Witness ==
    /\ call.op = "toggle" /\ IsValidId(call.id)
    /\ _is_set(call.id, call.cls, pre) = 0
    /\ _is_set(call.id, call.cls, Store) = 1
    /\ status_any_of(call.cls, pre) = 1

\* C23: each last-set-id is 0xFFFF or an id with decoded bank <
\* NUM_STATUS_BANKS and decoded bit < 16; a set that is rejected records nothing.
C23_LastIdSentinelOrValid ==
    /\ \A cls \in Classes :
          status_last(cls, Store) = UNSET_ID \/ IsValidId(status_last(cls, Store))
    /\ (call.op = "set" /\ ~IsValidId(call.id)) =>
          \A cls \in Classes : status_last(cls, Store) = status_last(cls, pre)
    /\ (call.op = "last") => (ret = UNSET_ID \/ IsValidId(ret))

\* a set with bank == bank count was rejected while the class's last-set-id
\* names an earlier valid id
C23_Witness ==
    /\ call.op = "set" /\ status_bank(call.id) = NUM_STATUS_BANKS
    /\ status_last(call.cls, Store) # UNSET_ID
    /\ IsValidId(status_last(call.cls, Store))
    /\ status_last(call.cls, Store) # call.id

NoValidSetSinceInit(cls) == recent_set[cls] = UNSET_ID

\* C25 as stated: 0xFFFF passes the range check under no bank count, and
\* last_set(class) is 0xFFFF exactly when no set with a valid id has been
\* applied to the class since the last init.
C25_SentinelNeverValid ==
    /\ \A n \in BankCounts : ~_in_range(UNSET_ID, n)
    /\ \A cls \in Classes :
          (status_last(cls, Store) = UNSET_ID) <=> NoValidSetSinceInit(cls)

\* C25 as amended: 0xFFFF decodes to bank 0xFFF and passes the range check
\* under no bank count up to 4095 (under 4096 banks it is the valid id of pair
\* (4095, 15)); in the configured store last_set(class) is 0xFFFF exactly when
\* no set with a valid id has been applied to the class since the last init.
C25_SentinelFreeUpTo4095 ==
    /\ status_bank(UNSET_ID) = MaxEncodableBank
    /\ \A n \in BankCounts :
          (n <= MaxEncodableBank) <=> ~_in_range(UNSET_ID, n)
    /\ ~IsValidId(UNSET_ID)
    /\ \A cls \in Classes :
          (status_last(cls, Store) = UNSET_ID) <=> NoValidSetSinceInit(cls)
    /\ (call.op = "set" /\ call.id = UNSET_ID) => Store = pre

\* a set of 0xFFFF itself was rejected in a class with no valid set since the
\* last init, which came after earlier sets: the last-set-id reads 0xFFFF
C25_Witness ==
    /\ call.op = "set" /\ call.id = UNSET_ID
    /\ NoValidSetSinceInit(call.cls)
    /\ status_last(call.cls, Store) = UNSET_ID
    /\ \E cls \in Classes \ {call.cls} : status_last(cls, Store) # UNSET_ID

\* C26: is_set, any, last_set and snapshot, with any argument, leave every bank
\* word of every class and every last-set-id as they were.
C26_QueriesPure ==
    (call.op \in {"is_set", "any", "last", "snapshot"}) => Store = pre

\* status_last_fault returned a recorded id and the id is still recorded
C26_Witness ==
    /\ call.op = "last" /\ call.cls = STATUS_CLASS_FAULT
    /\ ret # UNSET_ID
    /\ status_last(STATUS_CLASS_FAULT, Store) = ret
    /\ status_any_of(STATUS_CLASS_FAULT, Store) = 1
    /\ Store = pre

\* a call run from entry to return on the store S
ApplyCall(c, S) ==
    CASE c.op = "set" -> _set(c.id, c.cls, S)
      [] c.op = "clear" -> _clear(c.id, c.cls, S)
      [] c.op = "toggle" -> _toggle(c.id, c.cls, S)
      [] c.op = "clear_all" -> status_clear_all_store(c.cls, S)
      [] c.op = "init" -> status_init_store(S)
      [] OTHER -> S

\* the bank words of all classes
BankWords(S) == <<S.fault_banks, S.warning_banks, S.info_banks>>

\* the mutator calls callers make
MutatorCalls ==
    {Call(op, cls, id, -1, NULL) : op \in Mutators, cls \in Classes,
                                   id \in TestIds(STATUS_CLASS_FAULT)}

\* C27: the mutator that has just run (on the store pre) and any other mutator
\* on a different valid id of the same class, or on any id of another class,
\* give the same bank words in both orders; the whole store is the same unless
\* both are sets on one class.
C27_MutatorsCommute ==
    (call.op \in Mutators) =>
        \A m \in MutatorCalls :
            (\/ m.cls # call.cls
             \/ (IsValidId(m.id) /\ IsValidId(call.id) /\ m.id # call.id)) =>
                LET call_then_m == ApplyCall(m, Store)
                    m_then_call == ApplyCall(call, ApplyCall(m, pre))
                IN  /\ BankWords(call_then_m) = BankWords(m_then_call)
                    /\ ~(m.op = "set" /\ call.op = "set" /\ m.cls = call.cls) =>
                          call_then_m = m_then_call

\* a set has run on one bit of a bank word whose other bit is on: a toggle of
\* that other bit commutes with it
C27_Witness ==
    /\ call.op = "set" /\ call.id = STATUS_ID_FAULT_OVERVOLTAGE
    /\ call.cls = STATUS_CLASS_FAULT
    /\ _is_set(STATUS_ID_FAULT_OVERCURRENT, STATUS_CLASS_FAULT, pre) = 1
    /\ LET m == Call("toggle", STATUS_CLASS_FAULT, STATUS_ID_FAULT_OVERCURRENT, -1, NULL)
       IN  /\ BankWords(ApplyCall(m, Store)) = BankWords(ApplyCall(call, ApplyCall(m, pre)))
           /\ BankWords(ApplyCall(m, Store)) # BankWords(Store)

\* C28: set, clear, clear_all and init are idempotent: in the state one of them
\* has left, the same call again leaves every bank word and every last-set-id
\* as they are.
C28_Idempotent ==
    (call.op \in {"set", "clear", "clear_all", "init"}) =>
        ApplyCall(call, Store) = Store

\* a set that turned on a bit and replaced the class's last-set-id: once more
\* changes nothing
C28_Witness ==
    /\ call.op = "set" /\ IsValidId(call.id)
    /\ _is_set(call.id, call.cls, pre) = 0
    /\ status_last(call.cls, pre) \notin {UNSET_ID, call.id}
    /\ Store # pre
    /\ ApplyCall(call, Store) = Store

\* C29: for every 16-bit id the decoded bit is below NUM_STATUS_BITS, so the bit
\* operand of the range check rejects no id: an id is rejected exactly when its
\* decoded bank is >= NUM_STATUS_BANKS, and a set or toggle of any other id
\* takes effect.
C29_BitCheckNeverFails ==
    (codec.pc \in {"decoded", "used"}) =>
        /\ codec.dbit = status_bit(codec.id)
        /\ codec.dbit < NUM_STATUS_BITS
        /\ _failed_check(codec.id) # "bit"
        /\ (_failed_check(codec.id) = "bank") <=> (codec.dbank >= NUM_STATUS_BANKS)
        /\ (codec.pc = "used" /\ call.op \in {"set", "toggle"}) =>
              ((Store = pre) <=> (codec.dbank >= NUM_STATUS_BANKS))

\* the id 0x00BF, whose low four bits are all ones, decoded to bit 15 of the
\* top bank and was accepted by a set
C29_Witness ==
    /\ codec.pc = "used" /\ call.op = "set"
    /\ codec.id = TOP_SLOT_ID
    /\ codec.dbit = NUM_STATUS_BITS - 1
    /\ Store # pre

\* the two revisions hold the same words in the banks both have, the same
\* last-set-ids, and gave the same return value and destination memory
RevAgree ==
    /\ \A cls \in Classes : \A i \in Banks :
           (i < rev.banks) => (rev.store[_get_bank_array(cls)][i] = WordsOf(cls, Store)[i])
    /\ \A cls \in Classes : rev_status_last(cls, rev.store) = status_last(cls, Store)
    /\ rev.ret = ret
    /\ rev.dst = dst

\* C30 as stated: whatever recognized-class calls with non-null destinations
\* are made, the assertion-based revision and the bounds-checked revision agree
\* on bank words, last-set-ids, return values and snapshot contents.
C30_RevisionsAgree == RevAgree

\* C30: built with the same NUM_STATUS_BANKS, the assertion-based revision
\* (assertions compiled out) and the bounds-checked revision stay in the same
\* state and give the same results after every recognized-class call with a
\* non-null destination, for valid and out-of-range ids alike.
C30_RevisionsAgreeSameBankCount ==
    (rev.banks = NUM_STATUS_BANKS) =>
        /\ rev.store = Store
        /\ RevAgree

\* with equal bank counts, both revisions rejected a set of an out-of-range id
\* while the top slot of the warning banks was set, and hold the same statics
C30_Witness ==
    /\ rev.banks = NUM_STATUS_BANKS
    /\ call.op = "set" /\ ~IsValidId(call.id)
    /\ status_last(STATUS_CLASS_WARNING, Store) = TOP_SLOT_ID
    /\ _is_set(TOP_SLOT_ID, STATUS_CLASS_WARNING, Store) = 1
    /\ Store = pre
    /\ rev.store = Store

====
